---------------------------- MODULE Spec2Model ----------------------------
(***************************************************************************)
(* The two kernels of the numba notebooks:                                 *)
(*                                                                         *)
(*   3_numba_groupby_pixels.ipynb  groupby_python / groupby_numba, the     *)
(*       scatter-add  output[index[i]] += value[i],  together with the     *)
(*       notebook's reference  m = timeline_pandas.groupby(level=0).sum()  *)
(*       and the buffers  np.zeros_like(m)  it is run into;                *)
(*   1_numpy.ipynb                 zero_clamp and its two other versions,  *)
(*       np_zero_clamp and ufunc_zero_clamp.                               *)
(*                                                                         *)
(* Arrays are functions on 0 .. n-1, as in the source.  Values are         *)
(* integers: the kernels only add, compare and copy them.                  *)
(***************************************************************************)
EXTENDS Integers, Sequences, FiniteSets

\* ------------------------------------------------------------- bounds ----
\* Longest index / value / x array.
MaxLen == 2
\* Largest output buffer (bucket count M).
MaxM == 2

\* Index values on both sides of every buffer of the model: negative ones
\* (wrapped by numpy while >= -M), valid ones, and ones >= M.
IndexVals == (0 - MaxM - 1) .. MaxM
\* Measurement values (np.random.randn gives both signs).
Values == {-1, 2}
\* Initial content of a bucket.
InitVals == {0, 3}

\* ---------------------------------------------------------- variables ----
VARIABLES
    index,      \* groupby: the index array (pixels)
    value,      \* groupby: the value array (timeline)
    output,     \* groupby: the buffer the kernel accumulates into
    initial,    \* the buffer's content when the call started
    jit,        \* FALSE: groupby_python, TRUE: groupby_numba (nopython)
    i,          \* groupby: the loop variable
    pc,         \* "loop", "done" (returned), "raised", "crashed"
    err,        \* "none", "IndexError", "SIGSEGV"
    writes,     \* log of the stores: <<position, bucket>>, oldest first
    run,        \* 1: first invocation, 2: the repeated one
    first,      \* the outcome of the first invocation
    dtype,      \* zero_clamp: element type of x
    x,          \* zero_clamp: the input array
    threshold,  \* zero_clamp: the threshold
    out,        \* zero_clamp: the result array
    ci,         \* zero_clamp: the loop variable
    cpc         \* zero_clamp: "idle", "loop", "done"

groupbyVars == <<index, value, output, initial, jit, i, pc, err, writes, run, first>>
clampVars == <<dtype, x, threshold, out, ci, cpc>>
vars == <<index, value, output, initial, jit, i, pc, err, writes, run, first,
          dtype, x, threshold, out, ci, cpc>>

\* ------------------------------------------------------ array helpers ----
\* a.shape[0] of a 1-D array.
shape0(a) == Cardinality(DOMAIN a)

range_inclusive(n) == 0 .. n
range_skip_last(n) == 0 .. (n - 2)
\* range(n)
range(n) == 0 .. (n - 1)

\* The positions of an array of n elements.
Positions(n) == 0 .. (n - 1)

\* All 1-D arrays of at most n elements drawn from S.
Arrays(S, n) == UNION {[Positions(len) -> S] : len \in 0 .. n}

\* numpy's bounds check of a[k]: negative k counts from the end.
InBounds(a, k) == (0 - shape0(a)) <= k /\ k < shape0(a)

wrap_off_by_one(a, k) == (k + 1) % shape0(a)
\* The position a[k] addresses once the bounds check passed.
wrap(a, k) == IF k < 0 THEN k + shape0(a) ELSE k

iadd_overwrite(a, k, v) == [a EXCEPT ![wrap(a, k)] = v]
\* a[k] += v
iadd(a, k, v) == [a EXCEPT ![wrap(a, k)] = @ + v]

\* np.zeros_like(a)
zeros_like(a) == [k \in DOMAIN a |-> 0]

RECURSIVE SumTo(_, _)
\* a[0] + ... + a[n-1]
SumTo(a, n) == IF n = 0 THEN 0 ELSE SumTo(a, n - 1) + a[n - 1]

\* a.sum()
Sum(a) == SumTo(a, shape0(a))

\* ------------------------------------------- the notebook's reference ----
\* NPIX = 50000
NPIX == 50000

\* np.random.randint(low, high, n) draws each element from low .. high-1.
randint(low, high) == low .. (high - 1)

\* The distinct index values, i.e. the index of the group-by result.
Keys(idx) == {idx[j] : j \in DOMAIN idx}

\* The p-th smallest key (p from 0): pandas sorts the group keys.
KeyAt(idx, p) == CHOOSE k \in Keys(idx) : Cardinality({q \in Keys(idx) : q < k}) = p

\* The sum of the values whose index is k.
GroupSum(idx, val, k) ==
    Sum([j \in DOMAIN idx |-> IF idx[j] = k /\ j \in DOMAIN val THEN val[j] ELSE 0])

\* m = pd.Series(val, index=idx).groupby(level=0).sum(), as its array of
\* values: one sum per distinct index value, in ascending index order.
GroupbyLevel0Sum(idx, val) ==
    [p \in Positions(Cardinality(Keys(idx))) |-> GroupSum(idx, val, KeyAt(idx, p))]

\* ------------------------------------------------------------ groupby ----
StaleBuffer == output
\* m_numba = np.zeros_like(m) before the kernel is run again: the buffer is
\* created anew with the content the first call started from.
FreshBuffer == initial

NoResult == [output |-> <<>>, pc |-> "none", err |-> "none"]

LoopWhileBucketsLeft == i \in range(shape0(output))
\* for i in range(index.shape[0]): one more pair to visit.
LoopContinues == i \in range(shape0(index))

\* The three loads of  output[index[i]] += value[i]  are in bounds.
LoadsOK ==
    /\ InBounds(index, i)
    /\ InBounds(output, index[i])
    /\ InBounds(value, i)

\* One iteration of the loop body, the same in both kernels.
ForBody ==
    /\ pc = "loop"
    /\ LoopContinues
    /\ LoadsOK
    /\ output' = iadd(output, index[i], value[i])
    /\ writes' = Append(writes, <<i, wrap(output, index[i])>>)
    /\ i' = i + 1
    /\ UNCHANGED <<index, value, initial, jit, pc, err, run, first>>
    /\ UNCHANGED clampVars

\* groupby_python: numpy raises IndexError on an index outside [-M, M) and
\* on a value array that is too short; nothing is stored by that iteration.
RaiseIndexError ==
    /\ pc = "loop"
    /\ ~jit
    /\ LoopContinues
    /\ ~LoadsOK
    /\ pc' = "raised"
    /\ err' = "IndexError"
    /\ UNCHANGED <<index, value, output, initial, jit, i, writes, run, first>>
    /\ UNCHANGED clampVars

\* groupby_numba: nopython code checks no bounds.  A store through an index
\* outside [-M, M) lands outside the buffer: the buffer keeps its content
\* and the loop goes on.
StrayStore ==
    /\ pc = "loop"
    /\ jit
    /\ LoopContinues
    /\ ~(InBounds(index, i) /\ InBounds(output, index[i]))
    /\ i' = i + 1
    /\ UNCHANGED <<index, value, output, initial, jit, pc, err, writes, run, first>>
    /\ UNCHANGED clampVars

\* groupby_numba: a load past the end of the value array yields whatever
\* the memory holds, which is added to the bucket.
GarbageLoad ==
    /\ pc = "loop"
    /\ jit
    /\ LoopContinues
    /\ InBounds(index, i)
    /\ InBounds(output, index[i])
    /\ ~InBounds(value, i)
    /\ \E g \in Values : output' = iadd(output, index[i], g)
    /\ writes' = Append(writes, <<i, wrap(output, index[i])>>)
    /\ i' = i + 1
    /\ UNCHANGED <<index, value, initial, jit, pc, err, run, first>>
    /\ UNCHANGED clampVars

\* groupby_numba: the out-of-bounds access hits an unmapped page.
Segfault ==
    /\ pc = "loop"
    /\ jit
    /\ LoopContinues
    /\ ~LoadsOK
    /\ pc' = "crashed"
    /\ err' = "SIGSEGV"
    /\ UNCHANGED <<index, value, output, initial, jit, i, writes, run, first>>
    /\ UNCHANGED clampVars

\* The range is exhausted: the kernel returns (None; the result is output).
Return ==
    /\ pc = "loop"
    /\ ~LoopContinues
    /\ pc' = "done"
    /\ UNCHANGED <<index, value, output, initial, jit, i, err, writes, run, first>>
    /\ UNCHANGED clampVars

\* The notebook runs the kernel a second time on the same arrays and a
\* newly created buffer.
Reinvoke ==
    /\ run = 1
    /\ pc \in {"done", "raised"}
    /\ first' = [output |-> output, pc |-> pc, err |-> err]
    /\ output' = FreshBuffer
    /\ i' = 0
    /\ pc' = "loop"
    /\ err' = "none"
    /\ writes' = <<>>
    /\ run' = 2
    /\ UNCHANGED <<index, value, initial, jit>>
    /\ UNCHANGED clampVars

ClampIdle ==
    /\ dtype = "int16"
    /\ x = <<>>
    /\ threshold = 0
    /\ out = <<>>
    /\ ci = 0
    /\ cpc = "idle"

\* A call  groupby(index, value, output)  on arrays of the caller's choice.
Init ==
    /\ index \in Arrays(IndexVals, MaxLen)
    /\ value \in Arrays(Values, MaxLen)
    /\ initial \in UNION {[Positions(n) -> InitVals] : n \in 0 .. MaxM}
    /\ output = initial
    /\ jit \in BOOLEAN
    /\ i = 0
    /\ pc = "loop"
    /\ err = "none"
    /\ writes = <<>>
    /\ run = 1
    /\ first = NoResult
    /\ ClampIdle

Next ==
    \/ ForBody
    \/ RaiseIndexError
    \/ StrayStore
    \/ GarbageLoad
    \/ Segfault
    \/ Return
    \/ Reinvoke

Spec == Init /\ [][Next]_vars

\* --------------------------------------------------------- zero_clamp ----
\* a_int16 = np.arange(n).astype(np.int16): 16-bit two's complement.
Int16Bits == 16

Int16Min == 0 - 2 ^ (Int16Bits - 1)
Int16Max == 2 ^ (Int16Bits - 1) - 1

\* The int16 that an integer result is stored as.
WrapInt16(v) == ((v - Int16Min) % (2 ^ Int16Bits)) + Int16Min

\* |v| of the mathematics.
Magnitude(v) == IF v < 0 THEN 0 - v ELSE v

\* np.abs(v) on an element of x: computed in x's element type.  The int16
\* loop negates in 16 bits, the float32 loop clears the sign bit.
np_abs(v) == IF dtype = "int16" THEN WrapInt16(Magnitude(v)) ELSE Magnitude(v)

\* The element rule of zero_clamp's loop body:
\*   if np.abs(x[i]) > threshold: out[i] = x[i]  else: out[i] = 0
clamp(v, t) == IF np_abs(v) > t THEN v ELSE 0

\* np.where(cond, a, 0)
np_where(cond, a) == [p \in DOMAIN a |-> IF cond[p] THEN a[p] ELSE 0]

\* np_zero_clamp: np.where(np.abs(x) > threshold, x, 0)
np_zero_clamp(a, t) == np_where([p \in DOMAIN a |-> np_abs(a[p]) > t], a)

\* ufunc_zero_clamp, the scalar function that @vectorize broadcasts.
ufunc_zero_clamp_scalar(v, t) == IF np_abs(v) > t THEN v ELSE 0

\* ufunc_zero_clamp on an array.
ufunc_zero_clamp(a, t) == [p \in DOMAIN a |-> ufunc_zero_clamp_scalar(a[p], t)]

\* Elements of x: both ends of int16, and values around the thresholds.
XVals == {Int16Min, -1601, -1600, 0, 1600, 1601, Int16Max}
\* zero_clamp(a_int16, 1600)
Thresholds == {0, 1600}
\* What np.empty_like may leave in a new array.
Garbage == {-7, 9}

\* A call zero_clamp(x, threshold), after  out = np.empty_like(x).
InitClamp ==
    /\ dtype \in {"int16", "float32"}
    /\ x \in Arrays(XVals, MaxLen)
    /\ threshold \in Thresholds
    /\ out \in {[p \in DOMAIN x |-> g] : g \in Garbage}
    /\ ci = 0
    /\ cpc = "loop"
    /\ index = <<>>
    /\ value = <<>>
    /\ initial = <<>>
    /\ output = <<>>
    /\ jit = TRUE
    /\ i = 0
    /\ pc = "idle"
    /\ err = "none"
    /\ writes = <<>>
    /\ run = 1
    /\ first = NoResult

\* for i in range(out.shape[0]): one iteration.
ClampBody ==
    /\ cpc = "loop"
    /\ ci \in range(shape0(out))
    /\ out' = [out EXCEPT ![ci] = clamp(x[ci], threshold)]
    /\ ci' = ci + 1
    /\ UNCHANGED <<dtype, x, threshold, cpc>>
    /\ UNCHANGED groupbyVars

\* return out
ClampReturn ==
    /\ cpc = "loop"
    /\ ci \notin range(shape0(out))
    /\ cpc' = "done"
    /\ UNCHANGED <<dtype, x, threshold, out, ci>>
    /\ UNCHANGED groupbyVars

NextClamp ==
    \/ ClampBody
    \/ ClampReturn

SpecClamp == InitClamp /\ [][NextClamp]_vars

\* ------------------------------------------------- what the claims use ----
\* M, the bucket count of the call.
M == shape0(output)
\* N, the number of indices.
N == shape0(index)

\* The precondition of the contract: aligned arrays, every index in [0, M).
ValidInput ==
    /\ shape0(index) = shape0(value)
    /\ \A j \in DOMAIN index : index[j] \in Positions(M)

\* Filter-and-sum reference: the values at positions below n whose index is k.
PartialSum(k, n) ==
    SumTo([j \in DOMAIN index |->
              IF index[j] = k /\ j \in DOMAIN value THEN value[j] ELSE 0], n)

Terminal == pc \in {"done", "raised", "crashed"}

\* The notebook's run: pixels = randint(0, NPIX-1, NTIME), timeline of the
\* same length, and the kernel run into np.zeros_like(m).
NotebookRun ==
    /\ shape0(index) = shape0(value)
    /\ \A j \in DOMAIN index : index[j] \in randint(0, NPIX - 1)
    /\ initial = zeros_like(GroupbyLevel0Sum(index, value))

\* C1. Bucket correctness: on valid input, once the kernel (either one) has
\* returned, every bucket k holds initial[k] plus the sum of the values
\* whose index is k, duplicates included.
C1_BucketCorrectness ==
    (ValidInput /\ pc = "done") =>
        \A k \in Positions(M) : output[k] = initial[k] + PartialSum(k, N)

\* A returned numba run in which one bucket with a nonzero initial value
\* received two values.
C1_Witness ==
    /\ ValidInput
    /\ pc = "done"
    /\ jit
    /\ \E a, b \in DOMAIN index :
          a # b /\ index[a] = index[b] /\ initial[index[a]] # 0

\* C2. Index range rejection, as claimed of groupby_python: no store is
\* ever made for an index outside [0, M), negative ones included, and a call
\* with such an index does not return normally.
C2_IndexRangeRejection ==
    ~jit =>
        /\ \A n \in 1 .. Len(writes) : index[writes[n][1]] \in Positions(M)
        /\ pc = "done" => \A j \in DOMAIN index : index[j] \in Positions(M)

\* C3. Length mismatch rejection, as claimed of groupby_python: when the
\* two arrays differ in length the buffer never leaves its initial content
\* and the call does not return normally.
C3_LengthMismatchRejection ==
    (~jit /\ shape0(index) # shape0(value)) =>
        /\ output = initial
        /\ writes = <<>>
        /\ pc # "done"

\* C4. Conservation: on valid input, once the kernel has returned,
\* sum(output) - sum(initial) = sum(value).
C4_Conservation ==
    (ValidInput /\ pc = "done") => Sum(output) - Sum(initial) = Sum(value)

\* A returned python run over two pairs with a nonzero initial buffer.
C4_Witness ==
    /\ ValidInput
    /\ pc = "done"
    /\ ~jit
    /\ N = 2
    /\ Sum(initial) # 0

\* C5. Agreement with the group-by reference: the notebook's run ends by
\* returning, with the buffer equal to m position for position.
C5_AgreesWithGroupby ==
    (NotebookRun /\ Terminal) =>
        /\ pc = "done"
        /\ output = GroupbyLevel0Sum(index, value)

\* The same, for pixel arrays in which every value from 0 to the largest one
\* occurs: there m has one entry per bucket and the run agrees with it.
DenseAgreesWithGroupby ==
    (NotebookRun /\ Terminal /\ Keys(index) = Positions(Cardinality(Keys(index)))) =>
        /\ pc = "done"
        /\ output = GroupbyLevel0Sum(index, value)

\* C6. Empty-bucket identity: on valid input, a bucket that no index equals
\* holds its initial value in every state and is in no store of the log.
C6_EmptyBucketIdentity ==
    ValidInput =>
        \A k \in Positions(M) \ Keys(index) :
            /\ output[k] = initial[k]
            /\ \A n \in 1 .. Len(writes) : writes[n][2] # k

\* A returned run that stored something and left a seeded bucket alone.
C6_Witness ==
    /\ ValidInput
    /\ pc = "done"
    /\ writes # <<>>
    /\ \E k \in Positions(M) \ Keys(index) : initial[k] # 0

\* C7. Empty input is a no-op: with both arrays empty the buffer equals the
\* initial one in every state, nothing is stored, and the call only returns.
C7_EmptyInputNoOp ==
    (shape0(index) = 0 /\ shape0(value) = 0) =>
        /\ output = initial
        /\ writes = <<>>
        /\ pc \in {"loop", "done"}
        /\ err = "none"

\* A returned call on empty arrays and a seeded buffer.
C7_Witness ==
    /\ shape0(index) = 0
    /\ shape0(value) = 0
    /\ pc = "done"
    /\ \E k \in Positions(M) : initial[k] # 0

PassInvariant ==
    /\ i \in 0 .. N
    /\ pc \in {"loop", "done"}
    /\ pc = "done" => i = N
    /\ Len(writes) = i
    /\ \A n \in 1 .. Len(writes) : writes[n] = <<n - 1, index[n - 1]>>
    /\ \A k \in Positions(M) : output[k] = initial[k] + PartialSum(k, i)

\* The step part of C9.
PassStep ==
    /\ index' = index
    /\ value' = value
    /\ (run' = run /\ (i' # i \/ output' # output)) =>
          /\ i < N
          /\ i' = i + 1
          /\ output' = [output EXCEPT ![index[i]] = @ + value[i]]

\* C9. Single linear pass: on valid input, at loop counter i every bucket
\* holds its initial value plus the values of the positions below i that
\* name it, the positions were visited once each in increasing order, the
\* loop ends at i = N, the two input arrays never change, and a step adds
\* value[i] to output[index[i]] and changes nothing else of the buffer.
C9_SingleLinearPass ==
    /\ [](ValidInput => PassInvariant)
    /\ [][ValidInput => PassStep]_vars

\* A returned run over two pairs that name different buckets.
C9_Witness ==
    /\ ValidInput
    /\ pc = "done"
    /\ i = 2
    /\ index[0] # index[1]

\* C10. zero_clamp as claimed: the returned array has x's length, keeps
\* x[p] where the magnitude of x[p] exceeds the threshold and holds 0
\* elsewhere, and equals the results of np_zero_clamp and ufunc_zero_clamp.
C10_ZeroClamp ==
    cpc = "done" =>
        /\ DOMAIN out = DOMAIN x
        /\ \A p \in DOMAIN x :
              out[p] = IF Magnitude(x[p]) > threshold THEN x[p] ELSE 0
        /\ out = np_zero_clamp(x, threshold)
        /\ out = ufunc_zero_clamp(x, threshold)

\* The part of C10 that is about the three versions only: they return the
\* same array, for both element types.
ZeroClampVersionsAgree ==
    cpc = "done" =>
        /\ out = np_zero_clamp(x, threshold)
        /\ out = ufunc_zero_clamp(x, threshold)
=============================================================================
